---- MODULE Spec2Model ----
(***************************************************************************)
(* A model of plumber's Renderer (package plumber, v2): NewRenderer and    *)
(* its functional options, and the Apply and Delete entry points with the  *)
(* parse pipeline they share.  The cluster client, the kustomize engine    *)
(* and the registered hooks are external: every call to one of them is a   *)
(* step whose outcome is chosen nondeterministically, and every such call  *)
(* is recorded, in order, in the history variable trace.                   *)
(***************************************************************************)
EXTENDS Naturals, Sequences, FiniteSets

\* Longest option list handed to NewRenderer.
MaxOpts == 2
\* Longest resource list the kustomize engine returns.
MaxObjs == 3
\* The same two bounds where two invocations run interleaved.
MaxConcOpts == 1
MaxConcObjs == 1

VARIABLES
    opts,    \* the options NewRenderer was called with
    r,       \* the Renderer struct built by NewRenderer
    op,      \* the entry point running (or last run): "none", "Apply", "Delete"
    pc,      \* position of the running call
    virtfs,  \* parse: the in-memory file tree of this call
    kust,    \* mutateKustomization: the decoded base kustomization
    res,     \* parse: res.Resources() as returned by the kustomize engine
    objs,    \* parse/Apply/Delete: the converted client objects
    i,       \* index of the resource / object the running loop is at
    j,       \* index of the hook the running inner loop is at
    trace,   \* history: the external calls of this call, in order
    err,     \* the error the call returned: Nil, or the chain of wrap labels
    other    \* the locals of a second invocation on the same Renderer, while
             \* the variables above hold those of the invocation taking steps

vars == <<opts, r, op, pc, virtfs, kust, res, objs, i, j, trace, err, other>>

Nil == <<>>

(***************************************************************************)
(* Options and NewRenderer.                                                *)
(***************************************************************************)

OptionKinds ==
    {"WithFieldOwner", "WithForceOwnership", "WithKustomizeMutator",
     "WithObjectMutator", "WithUnstructured", "WithPostApplyAction",
     "WithFSMutator"}

\* Option lists: the n-th option carries the argument n (the owner string or
\* the hook function it was built with), so any two arguments are distinct.
OptionLists ==
    UNION {[1..n -> OptionKinds] : n \in 0..MaxOpts}

OptionsOf(kinds) ==
    [n \in 1..Len(kinds) |-> [kind |-> kinds[n], arg |-> n]]

\* Field owner strings: the default, and the one the n-th option carries.
PlumberOwner == [name |-> "plumber", n |-> 0]
OwnerString(n) == [name |-> "custom", n |-> n]

WithFieldOwner_KeepFirst(owner, rr) ==
    IF rr.fieldOwner.name = "plumber"
    THEN [rr EXCEPT !.fieldOwner = owner]
    ELSE rr

WithFieldOwner(owner, rr) == [rr EXCEPT !.fieldOwner = owner]

WithForceOwnership(rr) == [rr EXCEPT !.forceOwner = TRUE]

WithKustomizeMutator(mutator, rr) ==
    [rr EXCEPT !.kmutators = Append(rr.kmutators, mutator)]

WithObjectMutator(mutator, rr) ==
    [rr EXCEPT !.omutators = Append(rr.omutators, mutator)]

WithUnstructured(rr) == [rr EXCEPT !.unstructured = TRUE]

WithPostApplyAction_Prepend(action, rr) ==
    [rr EXCEPT !.postApply = <<action>> \o rr.postApply]

WithPostApplyAction(action, rr) ==
    [rr EXCEPT !.postApply = Append(rr.postApply, action)]

WithFSMutator(mutator, rr) ==
    [rr EXCEPT !.fsmutators = Append(rr.fsmutators, mutator)]

\* opt(ctrl)
ApplyOption(opt, rr) ==
    CASE opt.kind = "WithFieldOwner"       ->
              WithFieldOwner(OwnerString(opt.arg), rr)
      [] opt.kind = "WithForceOwnership"   -> WithForceOwnership(rr)
      [] opt.kind = "WithKustomizeMutator" -> WithKustomizeMutator(opt.arg, rr)
      [] opt.kind = "WithObjectMutator"    -> WithObjectMutator(opt.arg, rr)
      [] opt.kind = "WithUnstructured"     -> WithUnstructured(rr)
      [] opt.kind = "WithPostApplyAction"  -> WithPostApplyAction(opt.arg, rr)
      [] opt.kind = "WithFSMutator"        -> WithFSMutator(opt.arg, rr)

\* The Renderer literal of NewRenderer; cli and from are external and fixed.
DefaultRenderer ==
    [fieldOwner   |-> PlumberOwner,
     forceOwner   |-> FALSE,
     unstructured |-> FALSE,
     kmutators    |-> <<>>,
     omutators    |-> <<>>,
     postApply    |-> <<>>,
     fsmutators   |-> <<>>]

RECURSIVE ApplyOptions(_, _)
ApplyOptions(os, rr) ==
    IF os = <<>> THEN rr
    ELSE ApplyOptions(Tail(os), ApplyOption(Head(os), rr))

NewRenderer(os) == ApplyOptions(os, DefaultRenderer)

(***************************************************************************)
(* The manifest source and the virtual tree.                               *)
(***************************************************************************)

\* The embedded tree: the base kustomization as authored, no mutation.
EmbedFS_Shared ==
    IF other.l.virtfs.loaded THEN other.l.virtfs
    ELSE [loaded |-> TRUE,
          base   |-> [encoding |-> "authored", muts |-> <<>>],
          fsmuts |-> <<>>]

EmbedFS ==
    [loaded |-> TRUE,
     base   |-> [encoding |-> "authored", muts |-> <<>>],
     fsmuts |-> <<>>]

NoFS ==
    [loaded |-> FALSE,
     base   |-> [encoding |-> "none", muts |-> <<>>],
     fsmuts |-> <<>>]

NoKust == [muts |-> <<>>]

\* yaml.Unmarshal into types.Kustomization: the typed fields only.
Unmarshal(doc) == [muts |-> doc.muts]

\* yaml.Marshal of the struct: a freshly encoded document.
Marshal(k) == [encoding |-> "marshaled", muts |-> k.muts]

(***************************************************************************)
(* Outcomes of the external calls.                                         *)
(***************************************************************************)

HookResults == {"ok", "error"}
ClientResults == {"ok", "notfound", "error"}

\* Group/version/kind of a composed resource, by whether cli.Scheme() can
\* instantiate it.
Gvks == {"Registered", "Unregistered"}

\* Two interleaved invocations are explored with shorter resource lists.
ResourceBound == IF other.present THEN MaxConcObjs ELSE MaxObjs

ResourceLists == UNION {[1..n -> Gvks] : n \in 0..ResourceBound}

IsNotFound_AnyError(result) == result # "ok"

\* errors.IsNotFound
IsNotFound(result) == result = "notfound"

Ev(ev, hook, obj, result, args) ==
    [ev |-> ev, hook |-> hook, obj |-> obj, res |-> result, args |-> args]

Emit(e) == trace' = Append(trace, e)

Wrap(label, cause) == <<label>> \o cause

(***************************************************************************)
(* Control flow: where a call goes next.                                   *)
(***************************************************************************)

Goto(p, ii, jj) == pc' = p /\ i' = ii /\ j' = jj /\ err' = err

Return(e) == pc' = "done" /\ i' = i /\ j' = j /\ err' = e

\* The submission of object ii: Patch in Apply, Delete in Delete.
EnterSubmit(ii) == Goto(IF op = "Apply" THEN "patch" ELSE "delete", ii, 1)

\* "for _, mut := range r.omutators"
EnterOMutators(ii, jj) ==
    IF jj <= Len(r.omutators) THEN Goto("omut", ii, jj) ELSE EnterSubmit(ii)

\* "for _, obj := range objs" of Apply and Delete; "return nil" after it.
EnterObject_NoMutators(os, ii) ==
    IF ii <= Len(os) THEN EnterSubmit(ii) ELSE Return(Nil)

EnterObject(os, ii) ==
    IF ii <= Len(os) THEN EnterOMutators(ii, 1) ELSE Return(Nil)

\* Apply/Delete: "return fmt.Errorf("error parsing kustomize files: %w", err)"
ParseError_Proceed(e) == EnterObject(objs, 1)

ParseError(e) == Return(Wrap("error parsing kustomize files", e))

\* "for _, action := range r.postApply", then the next object.
EnterPostApply(ii, jj) ==
    IF jj <= Len(r.postApply) THEN Goto("post", ii, jj)
    ELSE EnterObject(objs, ii + 1)

\* "for _, rsc := range res.Resources()"; "return objs, nil" after it.
EnterConvert(rs, os, ii) ==
    IF ii <= Len(rs) THEN Goto("convert", ii, 1) ELSE EnterObject(os, 1)

\* "for _, mut := range r.kmutators", then Marshal and WriteFile.
EnterKMutators(jj) ==
    IF jj <= Len(r.kmutators) THEN Goto("kmut", 0, jj)
    ELSE Goto("kwrite", 0, 1)

\* mutateKustomization: "if len(r.kmutators) == 0 { return nil }"
EnterMutateKustomization_Always == Goto("kread", 0, 1)

EnterMutateKustomization ==
    IF Len(r.kmutators) = 0 THEN Goto("kustomize", 0, 1)
    ELSE Goto("kread", 0, 1)

\* "for _, mut := range r.fsmutators", then mutateKustomization.
EnterFSMutators(jj) ==
    IF jj <= Len(r.fsmutators) THEN Goto("fsmut", 0, jj)
    ELSE EnterMutateKustomization

AfterLoadFS_SkipFSMutators == EnterMutateKustomization

AfterLoadFS == EnterFSMutators(1)

(***************************************************************************)
(* The locals of one invocation of Apply or Delete.                        *)
(***************************************************************************)

Locals ==
    [op |-> op, pc |-> pc, virtfs |-> virtfs, kust |-> kust, res |-> res,
     objs |-> objs, i |-> i, j |-> j, trace |-> trace, err |-> err]

\* No call made yet.
IdleLocals ==
    [op |-> "none", pc |-> "idle", virtfs |-> NoFS, kust |-> NoKust,
     res |-> <<>>, objs |-> <<>>, i |-> 0, j |-> 1, trace |-> <<>>,
     err |-> Nil]

(***************************************************************************)
(* Init: the state after NewRenderer(cli, emb, opts...).                   *)
(***************************************************************************)

Init ==
    /\ opts \in {OptionsOf(k) : k \in OptionLists}
    /\ r = NewRenderer(opts)
    /\ op = "none"
    /\ pc = "idle"
    /\ virtfs = NoFS
    /\ kust = NoKust
    /\ res = <<>>
    /\ objs = <<>>
    /\ i = 0
    /\ j = 1
    /\ trace = <<>>
    /\ err = Nil
    /\ other = [present |-> FALSE, l |-> IdleLocals]

\* The same, with a second goroutine that calls the same Renderer.
InitConcurrent ==
    /\ opts \in {OptionsOf(k) : k \in {kk \in OptionLists : Len(kk) <= MaxConcOpts}}
    /\ r = NewRenderer(opts)
    /\ op = "none"
    /\ pc = "idle"
    /\ virtfs = NoFS
    /\ kust = NoKust
    /\ res = <<>>
    /\ objs = <<>>
    /\ i = 0
    /\ j = 1
    /\ trace = <<>>
    /\ err = Nil
    /\ other = [present |-> TRUE, l |-> IdleLocals]

(***************************************************************************)
(* Apply(ctx, overlay) / Delete(ctx, overlay) is called: fresh locals.     *)
(***************************************************************************)
Call ==
    /\ pc \in {"idle", "done"}
    /\ \E o \in {"Apply", "Delete"} : op' = o
    /\ pc' = "load"
    /\ virtfs' = NoFS
    /\ kust' = NoKust
    /\ res' = <<>>
    /\ objs' = <<>>
    /\ i' = 0
    /\ j' = 1
    /\ trace' = <<>>
    /\ err' = Nil
    /\ UNCHANGED <<other, opts, r>>

(***************************************************************************)
(* parse                                                                   *)
(***************************************************************************)

\* virtfs, err := LoadFS(r.from)
LoadFS ==
    /\ pc = "load"
    /\ \E result \in HookResults :
        /\ Emit(Ev("LoadFS", 0, 0, result, <<>>))
        /\ IF result = "ok"
           THEN virtfs' = EmbedFS /\ AfterLoadFS
           ELSE virtfs' = virtfs
                /\ ParseError(<<"unable to load overlay", "error loading embed files">>)
    /\ UNCHANGED <<other, opts, r, op, kust, res, objs>>

\* mut(ctx, virtfs) for one filesystem mutator
FSMutate ==
    /\ pc = "fsmut"
    /\ \E result \in HookResults :
        /\ Emit(Ev("FSMutator", r.fsmutators[j], 0, result, <<>>))
        /\ IF result = "ok"
           THEN virtfs' = [virtfs EXCEPT !.fsmuts = Append(@, r.fsmutators[j])]
                /\ EnterFSMutators(j + 1)
           ELSE virtfs' = virtfs
                /\ ParseError(<<"error mutating filesystem", "hook">>)
    /\ UNCHANGED <<other, opts, r, op, kust, res, objs>>

KustomizationError(label) ==
    ParseError(<<"error setting object name prefix", label, "cause">>)

\* mutateKustomization: fs.ReadFile(BaseKustomizationPath), yaml.Unmarshal
ReadKustomization ==
    /\ pc = "kread"
    /\ \E result \in {"ok", "read", "parse"} :
        /\ Emit(Ev("ReadKustomization", 0, 0,
                   IF result = "ok" THEN "ok" ELSE "error", <<>>))
        /\ CASE result = "ok" ->
                  kust' = Unmarshal(virtfs.base) /\ EnterKMutators(1)
             [] result = "read" ->
                  kust' = kust
                  /\ KustomizationError("error reading base kustomization")
             [] result = "parse" ->
                  kust' = kust
                  /\ KustomizationError("error parsing base kustomization")
    /\ UNCHANGED <<other, opts, r, op, virtfs, res, objs>>

\* mut(ctx, &kust) for one kustomization mutator
KMutate ==
    /\ pc = "kmut"
    /\ \E result \in HookResults :
        /\ Emit(Ev("KustomizeMutator", r.kmutators[j], 0, result, <<>>))
        /\ IF result = "ok"
           THEN kust' = [kust EXCEPT !.muts = Append(@, r.kmutators[j])]
                /\ EnterKMutators(j + 1)
           ELSE kust' = kust
                /\ ParseError(<<"error setting object name prefix",
                                "error mutating kustomization", "hook">>)
    /\ UNCHANGED <<other, opts, r, op, virtfs, res, objs>>

\* The document mutateKustomization writes to BaseKustomizationPath: newdt.
WrittenBase_Old == virtfs.base

WrittenBase == Marshal(kust)

\* mutateKustomization: yaml.Marshal, fs.WriteFile(BaseKustomizationPath)
WriteKustomization_ClearsMutators ==
    /\ pc = "kwrite"
    /\ Emit(Ev("WriteKustomization", 0, 0, "ok", <<>>))
    /\ virtfs' = [virtfs EXCEPT !.base = WrittenBase]
    /\ r' = [r EXCEPT !.kmutators = <<>>]
    /\ Goto("kustomize", 0, 1)
    /\ UNCHANGED <<other, opts, op, kust, res, objs>>

WriteKustomization ==
    /\ pc = "kwrite"
    /\ \E result \in {"ok", "marshal", "write"} :
        /\ Emit(Ev("WriteKustomization", 0, 0,
                   IF result = "ok" THEN "ok" ELSE "error", <<>>))
        /\ CASE result = "ok" ->
                  virtfs' = [virtfs EXCEPT !.base = WrittenBase]
                  /\ Goto("kustomize", 0, 1)
             [] result = "marshal" ->
                  virtfs' = virtfs
                  /\ KustomizationError("error marshaling base kustomization")
             [] result = "write" ->
                  virtfs' = virtfs
                  /\ KustomizationError("error writing base kustomization")
    /\ UNCHANGED <<other, opts, r, op, kust, res, objs>>

\* krusty.MakeKustomizer(...).Run(virtfs, path.Join("kustomize", overlay));
\* the engine reads the base kustomization the tree holds at that time.
Kustomize ==
    /\ pc = "kustomize"
    /\ \/ /\ Emit(Ev("Kustomize", 0, 0, "error", <<virtfs.base>>))
          /\ res' = res
          /\ ParseError(<<"error running kustomize", "cause">>)
       \/ \E rs \in ResourceLists :
          /\ Emit(Ev("Kustomize", 0, 0, "ok", <<virtfs.base>>))
          /\ res' = rs
          /\ EnterConvert(rs, <<>>, 1)
    /\ UNCHANGED <<other, opts, r, op, virtfs, kust, objs>>

\* What parse does with a resource that failed to convert: return the error.
ConvertError_Skip(e) == objs' = objs /\ EnterConvert(res, objs, i + 1)

ConvertError(e) == objs' = objs /\ ParseError(e)

\* "objs = append(objs, clientobj)"
ConvertOk_Prepend(o) ==
    /\ objs' = <<o>> \o objs
    /\ EnterConvert(res, <<o>> \o objs, i + 1)

ConvertOk(o) ==
    /\ objs' = Append(objs, o)
    /\ EnterConvert(res, Append(objs, o), i + 1)

ClientObject(n, typed) ==
    [rsc |-> n, gvk |-> res[n], typed |-> typed, muts |-> <<>>]

\* r.unstructuredObject(rsc)
UnstructuredObject ==
    /\ pc = "convert"
    /\ r.unstructured
    /\ \E result \in {"ok", "yaml", "decode"} :
        /\ Emit(Ev("Convert", 0, i, IF result = "ok" THEN "ok" ELSE "error", <<>>))
        /\ CASE result = "ok" -> ConvertOk(ClientObject(i, FALSE))
             [] result = "yaml" ->
                  ConvertError(<<"error converting type to unstructure",
                                 "error converting resource to yaml", "cause">>)
             [] result = "decode" ->
                  ConvertError(<<"error converting type to unstructure",
                                 "error decoding unstructured object", "cause">>)
    /\ UNCHANGED <<other, opts, r, op, virtfs, kust, res>>

\* r.cli.Scheme().New(gvk) fails for a kind the scheme does not know.
SchemeNew(gvk) == IF gvk = "Registered" THEN "ok" ELSE "error"

TypedOutcomes(gvk) ==
    IF SchemeNew(gvk) = "ok"
    THEN {"ok", "marshal", "unmarshal", "notobject"}
    ELSE {"instantiate"}

\* r.typedObject(rsc)
TypedObject ==
    /\ pc = "convert"
    /\ ~r.unstructured
    /\ \E result \in TypedOutcomes(res[i]) :
        /\ Emit(Ev("Convert", 0, i, IF result = "ok" THEN "ok" ELSE "error", <<>>))
        /\ CASE result = "ok" -> ConvertOk(ClientObject(i, TRUE))
             [] result = "instantiate" ->
                  ConvertError(<<"unable to instantiate runtime object", "cause">>)
             [] result = "marshal" ->
                  ConvertError(<<"error marshaling resource", "cause">>)
             [] result = "unmarshal" ->
                  ConvertError(<<"error unmarshaling into object", "cause">>)
             [] result = "notobject" ->
                  ConvertError(<<"is not client.Object">>)
    /\ UNCHANGED <<other, opts, r, op, virtfs, kust, res>>

(***************************************************************************)
(* Apply                                                                   *)
(***************************************************************************)

Mutated(os, ii, hook) == [os EXCEPT ![ii].muts = Append(@, hook)]

\* Apply: a mutator returned an error: "return fmt.Errorf(...)"
ApplyMutateFailed_Continue == EnterOMutators(i, j + 1)

ApplyMutateFailed == Return(<<"error mutating object", "hook">>)

\* Apply: mut(ctx, obj) for one object mutator
ApplyMutate ==
    /\ pc = "omut"
    /\ op = "Apply"
    /\ \E result \in HookResults :
        /\ Emit(Ev("ObjectMutator", r.omutators[j], i, result, <<>>))
        /\ IF result = "ok"
           THEN objs' = Mutated(objs, i, r.omutators[j])
                /\ EnterOMutators(i, j + 1)
           ELSE objs' = objs /\ ApplyMutateFailed
    /\ UNCHANGED <<other, opts, r, op, virtfs, kust, res>>

\* "opts := []client.PatchOption{client.FieldOwner(r.fieldOwner)}" and the
\* optional client.ForceOwnership
PatchOptions ==
    <<r.fieldOwner>> \o
    (IF r.forceOwner THEN <<[name |-> "ForceOwnership", n |-> 0]>> ELSE <<>>)

\* Patch returned nil: on to the post-apply actions of the object.
AfterPatch == EnterPostApply(i, 1)

\* Patch failed and the error is not a not-found: Apply returns it.
PatchFailed_Unwrapped == Return(<<"cause">>)

PatchFailed == Return(<<"error patching object", "cause">>)

\* r.cli.Patch(ctx, obj, client.Apply, opts...)
Patch ==
    /\ pc = "patch"
    /\ \E result \in ClientResults :
        /\ Emit(Ev("Patch", 0, i, result, PatchOptions))
        /\ IF result = "ok"
           THEN AfterPatch
           ELSE IF ~IsNotFound(result)
                THEN PatchFailed
                ELSE Goto("create", i, 1)
    /\ UNCHANGED <<other, opts, r, op, virtfs, kust, res, objs>>

\* Create returned nil: on to the post-apply actions of the object.
AfterCreate_SkipPostApply == EnterObject(objs, i + 1)

AfterCreate == EnterPostApply(i, 1)

\* Create failed: Apply returns the error.
CreateFailed_Ignore == EnterPostApply(i, 1)

CreateFailed == Return(<<"error creating object", "cause">>)

\* r.cli.Create(ctx, obj)
Create ==
    /\ pc = "create"
    /\ \E result \in ClientResults :
        /\ Emit(Ev("Create", 0, i, result, <<>>))
        /\ IF result = "ok" THEN AfterCreate ELSE CreateFailed
    /\ UNCHANGED <<other, opts, r, op, virtfs, kust, res, objs>>

\* action(ctx, obj) for one post-apply action
PostApply ==
    /\ pc = "post"
    /\ \E result \in HookResults :
        /\ Emit(Ev("PostApplyAction", r.postApply[j], i, result, <<>>))
        /\ IF result = "ok"
           THEN EnterPostApply(i, j + 1)
           ELSE Return(<<"error running post apply action", "hook">>)
    /\ UNCHANGED <<other, opts, r, op, virtfs, kust, res, objs>>

(***************************************************************************)
(* Delete                                                                  *)
(***************************************************************************)

\* Delete: mut(ctx, obj) for one object mutator
DeleteMutate ==
    /\ pc = "omut"
    /\ op = "Delete"
    /\ \E result \in HookResults :
        /\ Emit(Ev("ObjectMutator", r.omutators[j], i, result, <<>>))
        /\ IF result = "ok"
           THEN objs' = Mutated(objs, i, r.omutators[j])
                /\ EnterOMutators(i, j + 1)
           ELSE objs' = objs
                /\ Return(<<"error mutating object", "hook">>)
    /\ UNCHANGED <<other, opts, r, op, virtfs, kust, res>>

\* Delete returned nil: the next object.
Deleted_PostApply == EnterPostApply(i, 1)

Deleted == EnterObject(objs, i + 1)

\* Delete reported the object absent: "continue".
DeleteNotFound_Fail == Return(<<"error deleting object", "cause">>)

DeleteNotFound == EnterObject(objs, i + 1)

\* Delete failed with another error: Delete returns it.
DeleteFailed_Continue == EnterObject(objs, i + 1)

DeleteFailed == Return(<<"error deleting object", "cause">>)

\* r.cli.Delete(ctx, obj)
DeleteObject ==
    /\ pc = "delete"
    /\ \E result \in ClientResults :
        /\ Emit(Ev("Delete", 0, i, result, <<>>))
        /\ IF result = "ok"
           THEN Deleted
           ELSE IF IsNotFound(result) THEN DeleteNotFound ELSE DeleteFailed
    /\ UNCHANGED <<other, opts, r, op, virtfs, kust, res, objs>>

Next ==
    \/ Call
    \/ LoadFS
    \/ FSMutate
    \/ ReadKustomization
    \/ KMutate
    \/ WriteKustomization
    \/ Kustomize
    \/ UnstructuredObject
    \/ TypedObject
    \/ ApplyMutate
    \/ Patch
    \/ Create
    \/ PostApply
    \/ DeleteMutate
    \/ DeleteObject

Spec == Init /\ [][Next]_vars

(***************************************************************************)
(* Two invocations on one Renderer: the scheduler suspends the invocation  *)
(* taking steps, at any point, and resumes the other one.                  *)
(***************************************************************************)
Switch ==
    /\ other.present
    /\ other' = [other EXCEPT !.l = Locals]
    /\ op' = other.l.op
    /\ pc' = other.l.pc
    /\ virtfs' = other.l.virtfs
    /\ kust' = other.l.kust
    /\ res' = other.l.res
    /\ objs' = other.l.objs
    /\ i' = other.l.i
    /\ j' = other.l.j
    /\ trace' = other.l.trace
    /\ err' = other.l.err
    /\ UNCHANGED <<opts, r>>

NextConcurrent == Next \/ Switch

SpecConcurrent == InitConcurrent /\ [][NextConcurrent]_vars

(***************************************************************************)
(* Reading the history.                                                    *)
(***************************************************************************)

Positions == 1..Len(trace)

Is(k, ev) == trace[k].ev = ev

\* The positions of the calls named ev made for object o.
Calls(ev, o) == {k \in Positions : Is(k, ev) /\ trace[k].obj = o}

Done == pc = "done"

Last(k) == k = Len(trace)

\* The call at position k ended the entry point with an error.
Aborted(k) == Last(k) /\ Done /\ err # Nil

\* Object o was accepted by the cluster: by Patch or by the fallback Create.
SubmittedAt(k) ==
    /\ Is(k, "Patch") \/ Is(k, "Create")
    /\ trace[k].res = "ok"

Submitted(o) == \E k \in Positions : SubmittedAt(k) /\ trace[k].obj = o

ClusterCalls == {"Patch", "Create", "Delete"}

\* C1: in Apply each object is patched at most once (exactly once when Apply
\* returns nil), Create is called for an object exactly when its Patch just
\* returned not-found, never after a Patch that succeeded, and no call is
\* repeated.
C1_PatchThenCreate ==
    op = "Apply" =>
        /\ \A o \in 1..Len(objs) :
            /\ Cardinality(Calls("Patch", o)) <= 1
            /\ Cardinality(Calls("Create", o)) <= 1
            /\ (Done /\ err = Nil) => Cardinality(Calls("Patch", o)) = 1
        /\ \A k \in Positions :
            /\ Is(k, "Create") =>
                /\ k > 1
                /\ Is(k - 1, "Patch")
                /\ trace[k - 1].obj = trace[k].obj
                /\ trace[k - 1].res = "notfound"
            /\ (Is(k, "Patch") /\ trace[k].res = "notfound") =>
                IF Last(k)
                THEN pc = "create" /\ i = trace[k].obj
                ELSE Is(k + 1, "Create") /\ trace[k + 1].obj = trace[k].obj
            /\ (Is(k, "Patch") /\ trace[k].res = "ok") =>
                Calls("Create", trace[k].obj) = {}

\* An Apply that ended with one object created by the fallback and another
\* patched in place.
C1_Witness ==
    /\ op = "Apply" /\ Done /\ err = Nil
    /\ \E k, l \in Positions :
        /\ Is(k, "Patch") /\ trace[k].res = "notfound"
        /\ Is(k + 1, "Create") /\ trace[k + 1].res = "ok"
        /\ Is(l, "Patch") /\ trace[l].res = "ok"
        /\ trace[l].obj # trace[k].obj

\* C2: when an object mutator fails on object k in Apply, Apply has returned
\* an error, objects 1..k-1 are exactly the submitted ones, each patched
\* once, and no Patch or Create was issued for object k or a later one.
C2_MutatorFailFast ==
    op = "Apply" =>
        \A k \in Positions :
            (Is(k, "ObjectMutator") /\ trace[k].res = "error") =>
                /\ Aborted(k)
                /\ \A o \in 1..Len(objs) :
                    /\ Submitted(o) <=> o < trace[k].obj
                    /\ Cardinality(Calls("Patch", o)) =
                           (IF o < trace[k].obj THEN 1 ELSE 0)
                    /\ o >= trace[k].obj => Calls("Create", o) = {}

\* A mutator failed on the second object, after the first was submitted.
C2_Witness ==
    /\ op = "Apply" /\ Done
    /\ \E k \in Positions :
        /\ Is(k, "ObjectMutator") /\ trace[k].res = "error"
        /\ trace[k].obj = 2
        /\ Len(objs) > 2
        /\ Submitted(1)

\* C3: a Patch error other than not-found, or any error of the fallback
\* Create, is the last call Apply makes: Apply has returned an error, and no
\* hook and no cluster call follows; Apply never issues a Delete.
C3_ClusterFailFast ==
    op = "Apply" =>
        \A k \in Positions :
            /\ ~Is(k, "Delete")
            /\ ( \/ Is(k, "Patch") /\ trace[k].res = "error"
                 \/ Is(k, "Create") /\ trace[k].res # "ok" ) => Aborted(k)

\* The fallback Create failed on the second object, after the first object
\* was submitted and its post-apply action ran.
C3_Witness ==
    /\ op = "Apply" /\ Done /\ err # Nil
    /\ \E k \in Positions :
        /\ Is(k, "Create") /\ trace[k].res # "ok" /\ trace[k].obj = 2
        /\ Submitted(1)
        /\ Calls("PostApplyAction", 1) # {}

\* No external call of the running call has failed, not-found aside.
NoFailure == \A k \in Positions : trace[k].res # "error"

\* C4: a Delete whose rendering and hooks succeed and whose delete requests
\* are all answered not-found returns nil, having issued one delete request
\* for each object; this holds of every Delete call, however many were made
\* before it.
C4_DeleteIdempotent ==
    ( /\ op = "Delete" /\ Done
      /\ NoFailure
      /\ \A k \in Positions : Is(k, "Delete") => trace[k].res = "notfound" )
    => /\ err = Nil
       /\ Len(objs) = Len(res)
       /\ \A o \in 1..Len(objs) : Cardinality(Calls("Delete", o)) = 1

\* A finished Delete of several objects, each reported not-found.
C4_Witness ==
    /\ op = "Delete" /\ Done /\ NoFailure
    /\ Len(objs) >= 2
    /\ \A o \in 1..Len(objs) :
        \E k \in Calls("Delete", o) : trace[k].res = "notfound"

\* C5: a delete request that fails with an error other than not-found is
\* the last call Delete makes and Delete has returned an error; after a
\* not-found, Delete goes on to the next object (or returns nil after the
\* last one).
C5_DeleteFailFast ==
    op = "Delete" =>
        \A k \in Positions :
            /\ (Is(k, "Delete") /\ trace[k].res = "error") => Aborted(k)
            /\ (Is(k, "Delete") /\ trace[k].res = "notfound") =>
                IF trace[k].obj = Len(objs)
                THEN Last(k) /\ Done /\ err = Nil
                ELSE IF Last(k)
                     THEN ~Done /\ i = trace[k].obj + 1
                     ELSE trace[k + 1].obj = trace[k].obj + 1
                          /\ trace[k + 1].ev \in {"ObjectMutator", "Delete"}

\* A not-found on the first object, then a failing delete of the second,
\* with a third object left.
C5_Witness ==
    /\ op = "Delete" /\ Done /\ err # Nil
    /\ Len(objs) > 2
    /\ \E k, l \in Positions :
        /\ Is(k, "Delete") /\ trace[k].res = "notfound" /\ trace[k].obj = 1
        /\ Is(l, "Delete") /\ trace[l].res = "error" /\ trace[l].obj = 2

\* The hooks registered by the options of one kind, in the order the options
\* were passed to NewRenderer.
HooksOf(kind) ==
    LET sel == SelectSeq(opts, LAMBDA o : o.kind = kind)
    IN  [n \in 1..Len(sel) |-> sel[n].arg]

\* The hooks invoked by the calls named ev for item o, in invocation order.
HookSeq(ev, o) ==
    LET sel == SelectSeq(trace, LAMBDA e : e.ev = ev /\ e.obj = o)
    IN  [n \in 1..Len(sel) |-> sel[n].hook]

IsPrefix(s, t) ==
    /\ Len(s) <= Len(t)
    /\ \A n \in 1..Len(s) : s[n] = t[n]

HookEvents ==
    {"FSMutator", "KustomizeMutator", "ObjectMutator", "PostApplyAction"}

\* C6: for each hook category and each item (the tree, the descriptor, an
\* object), the hooks invoked so far are an initial part of the hooks
\* registered for the category, in the order of the options given to
\* NewRenderer; a hook error is the last call of the render; and a render
\* that returns nil has invoked every registered hook once per item (the
\* post-apply actions in Apply only).
C6_RegistrationOrder ==
    /\ IsPrefix(HookSeq("FSMutator", 0), HooksOf("WithFSMutator"))
    /\ IsPrefix(HookSeq("KustomizeMutator", 0), HooksOf("WithKustomizeMutator"))
    /\ \A o \in 1..Len(objs) :
        /\ IsPrefix(HookSeq("ObjectMutator", o), HooksOf("WithObjectMutator"))
        /\ IsPrefix(HookSeq("PostApplyAction", o),
                    HooksOf("WithPostApplyAction"))
    /\ \A k \in Positions :
        (trace[k].ev \in HookEvents /\ trace[k].res = "error") => Aborted(k)
    /\ (Done /\ err = Nil) =>
        /\ HookSeq("FSMutator", 0) = HooksOf("WithFSMutator")
        /\ HookSeq("KustomizeMutator", 0) = HooksOf("WithKustomizeMutator")
        /\ \A o \in 1..Len(objs) :
            /\ HookSeq("ObjectMutator", o) = HooksOf("WithObjectMutator")
            /\ op = "Apply" =>
                HookSeq("PostApplyAction", o) = HooksOf("WithPostApplyAction")

\* A finished Apply of two objects with two post-apply actions registered.
C6_Witness ==
    /\ op = "Apply" /\ Done /\ err = Nil
    /\ Len(HooksOf("WithPostApplyAction")) >= 2
    /\ Len(objs) >= 2

Rank(ev) ==
    CASE ev = "LoadFS"             -> 1
      [] ev = "FSMutator"          -> 2
      [] ev = "ReadKustomization"  -> 3
      [] ev = "KustomizeMutator"   -> 4
      [] ev = "WriteKustomization" -> 5
      [] ev = "Kustomize"          -> 6
      [] ev = "Convert"            -> 7
      [] OTHER                     -> 8

C8_PostApply ==
    op = "Apply" =>
        LET reg == HooksOf("WithPostApplyAction") IN
        \A k \in Positions :
            /\ SubmittedAt(k) =>
                \A m \in 1..Len(reg) :
                    IF k + m <= Len(trace)
                    THEN /\ Is(k + m, "PostApplyAction")
                         /\ trace[k + m].hook = reg[m]
                         /\ trace[k + m].obj = trace[k].obj
                    ELSE \/ /\ pc = "post"
                            /\ i = trace[k].obj
                            /\ j = Len(trace) - k + 1
                         \/ /\ Is(Len(trace), "PostApplyAction")
                            /\ trace[Len(trace)].obj = trace[k].obj
                            /\ Aborted(Len(trace))
            /\ (Is(k, "PostApplyAction") /\ trace[k].res = "error") => Aborted(k)
            /\ Is(k, "PostApplyAction") =>
                \E m \in 1..Len(reg) :
                    /\ k > m
                    /\ SubmittedAt(k - m)
                    /\ trace[k - m].obj = trace[k].obj
                    /\ trace[k].hook = reg[m]

\* A finished Apply with two post-apply actions, one object patched and
\* another created by the fallback.
C8_Witness ==
    /\ op = "Apply" /\ Done /\ err = Nil
    /\ Len(HooksOf("WithPostApplyAction")) >= 2
    /\ \E k, l \in Positions :
        /\ Is(k, "Patch") /\ trace[k].res = "ok"
        /\ Is(l, "Create") /\ trace[l].res = "ok"

TypedMode == \A n \in 1..Len(opts) : opts[n].kind # "WithUnstructured"

\* C9: in typed mode, a render (Apply or Delete) whose composed resources
\* include one of a kind the scheme cannot instantiate returns a parsing
\* error, wherever that resource stands in the list, and issues no cluster
\* call.
C9_TypeResolution ==
    ( /\ Done
      /\ TypedMode
      /\ \E n \in 1..Len(res) : res[n] = "Unregistered" )
    => /\ err # Nil
       /\ Head(err) = "error parsing kustomize files"
       /\ \A k \in Positions : trace[k].ev \notin ClusterCalls

\* A typed render that converted a resolvable resource and then met an
\* unresolvable one.
C9_Witness ==
    /\ Done /\ TypedMode
    /\ Len(res) >= 2
    /\ res[1] = "Registered" /\ res[2] = "Unregistered"
    /\ Is(Len(trace), "Convert") /\ trace[Len(trace)].obj = 2

\* C10: Delete never invokes a post-apply action, whatever is registered
\* and whatever the delete requests return.
C10_NoPostDelete ==
    op = "Delete" =>
        /\ pc # "post"
        /\ \A k \in Positions : ~Is(k, "PostApplyAction")

\* A finished Delete with a post-apply action registered, one object
\* deleted and another reported absent.
C10_Witness ==
    /\ op = "Delete" /\ Done /\ err = Nil
    /\ HooksOf("WithPostApplyAction") # <<>>
    /\ \E k, l \in Positions :
        /\ Is(k, "Delete") /\ trace[k].res = "ok"
        /\ Is(l, "Delete") /\ trace[l].res = "notfound"

\* The resources behind the objects handed to Patch, in call order.
PatchedResources ==
    LET sel == SelectSeq(trace, LAMBDA e : e.ev = "Patch")
    IN  [n \in 1..Len(sel) |-> objs[sel[n].obj].rsc]

\* C11: Apply hands the objects to Patch in the order of the composed
\* resource list: the resources patched so far are resources 1, 2, ... in
\* that order; and when Apply returns nil every resource was patched once,
\* every object was accepted by the cluster and every post-apply action of
\* every object returned nil.
C11_SubmissionOrder ==
    op = "Apply" =>
        /\ Len(PatchedResources) <= Len(res)
        /\ \A n \in 1..Len(PatchedResources) : PatchedResources[n] = n
        /\ (Done /\ err = Nil) =>
            /\ Len(PatchedResources) = Len(res)
            /\ \A o \in 1..Len(objs) :
                /\ objs[o].gvk = res[o]
                /\ Submitted(o)
                /\ Len(HookSeq("PostApplyAction", o)) =
                       Len(HooksOf("WithPostApplyAction"))
            /\ \A k \in Positions :
                Is(k, "PostApplyAction") => trace[k].res = "ok"

\* A finished Apply of three resources of different kinds with a post-apply
\* action registered.
C11_Witness ==
    /\ op = "Apply" /\ Done /\ err = Nil
    /\ Len(res) = 3
    /\ res[1] # res[2]
    /\ HooksOf("WithPostApplyAction") # <<>>

RECURSIVE MutateAll(_, _)
\* The descriptor after the given mutators ran on it in order.
MutateAll(k, hooks) ==
    IF hooks = <<>> THEN k
    ELSE MutateAll([k EXCEPT !.muts = Append(@, Head(hooks))], Tail(hooks))

\* C12: with kustomization mutators registered, the base descriptor the
\* composition engine reads from the tree is the encoding of the decoded
\* original descriptor after every registered mutator was applied to it, in
\* registration order.
C12_DescriptorRoundTrip ==
    HooksOf("WithKustomizeMutator") # <<>> =>
        \A k \in Positions :
            Is(k, "Kustomize") =>
                trace[k].args =
                    << [encoding |-> "marshaled",
                        muts     |-> HooksOf("WithKustomizeMutator")] >>

\* Composition ran on a base descriptor that two mutators changed.
C12_Witness ==
    /\ Len(HooksOf("WithKustomizeMutator")) = 2
    /\ \E k \in Positions : Is(k, "Kustomize") /\ trace[k].res = "ok"
    /\ Len(objs) >= 1

\* The field owner NewRenderer ends with: the last WithFieldOwner, else the
\* default.
ConfiguredOwner ==
    LET given == SelectSeq(opts, LAMBDA o : o.kind = "WithFieldOwner")
    IN  IF given = <<>> THEN [name |-> "plumber", n |-> 0]
        ELSE [name |-> "custom", n |-> given[Len(given)].arg]

ForceConfigured == \E n \in 1..Len(opts) : opts[n].kind = "WithForceOwnership"

\* C13: every Patch of Apply carries the configured field owner ("plumber"
\* unless WithFieldOwner was given, the last one given otherwise) and the
\* force-ownership option exactly when WithForceOwnership was given; the
\* fallback Create carries no option.
C13_PatchOptions ==
    \A k \in Positions :
        /\ Is(k, "Patch") =>
            /\ Len(trace[k].args) = (IF ForceConfigured THEN 2 ELSE 1)
            /\ trace[k].args[1] = ConfiguredOwner
            /\ ForceConfigured =>
                trace[k].args[2] = [name |-> "ForceOwnership", n |-> 0]
        /\ Is(k, "Create") => trace[k].args = <<>>

\* A Patch and a fallback Create made after two WithFieldOwner options.
C13_Witness ==
    /\ Len(SelectSeq(opts, LAMBDA o : o.kind = "WithFieldOwner")) = 2
    /\ \E k \in 1..(Len(trace) - 1) : Is(k, "Patch") /\ Is(k + 1, "Create")

\* The descriptor was decoded, and then written back, before position k.
RewrittenBefore(k) ==
    \E m, n \in 1..(k - 1) :
        /\ m < n
        /\ Is(m, "ReadKustomization") /\ trace[m].res = "ok"
        /\ Is(n, "WriteKustomization") /\ trace[n].res = "ok"

\* C14 as stated: on every render the base descriptor is decoded and written
\* back, re-encoded, before composition runs, for any number of registered
\* kustomization mutators, zero included.
C14_AlwaysRewritten ==
    \A k \in Positions :
        Is(k, "Kustomize") =>
            /\ RewrittenBefore(k)
            /\ trace[k].args[1].encoding = "marshaled"

\* C14, amended: before composition runs the base descriptor is decoded,
\* passed through the mutators, re-encoded and written back when at least
\* one kustomization mutator is registered; with none registered it is
\* neither read nor written and composition reads it as authored.
C14_RewrittenIffMutators ==
    \A k \in Positions :
        Is(k, "Kustomize") =>
            IF HooksOf("WithKustomizeMutator") # <<>>
            THEN /\ RewrittenBefore(k)
                 /\ trace[k].args[1].encoding = "marshaled"
            ELSE /\ \A m \in Positions :
                      ~Is(m, "ReadKustomization") /\ ~Is(m, "WriteKustomization")
                 /\ trace[k].args[1].encoding = "authored"

\* Composition ran with no kustomization mutator registered, after a
\* filesystem mutator.
C14_Witness ==
    /\ HooksOf("WithKustomizeMutator") = <<>>
    /\ HooksOf("WithFSMutator") # <<>>
    /\ \E k \in Positions : Is(k, "Kustomize") /\ trace[k].res = "ok"

\* C16 as stated: in Delete the object mutators of every composed resource
\* have run before the first delete request is issued.
C16_AllHooksBeforeFirstDelete ==
    op = "Delete" =>
        \A k, l \in Positions :
            (Is(k, "Delete") /\ Is(l, "ObjectMutator")) => l < k

\* C16, amended: Delete renders as Apply does (steps 1 to 4 and the
\* conversion) and then takes the objects one at a time: the registered
\* mutators run on an object just before its own delete request, and the
\* mutators of an object run only after the delete request of the object
\* before it.
C16_HooksBeforeOwnDelete ==
    op = "Delete" =>
        LET reg == HooksOf("WithObjectMutator") IN
        \A k \in Positions :
            /\ Is(k, "Delete") =>
                /\ k > Len(reg)
                /\ \A m \in 1..Len(reg) :
                    LET e == trace[k - Len(reg) + m - 1] IN
                    /\ e.ev = "ObjectMutator"
                    /\ e.obj = trace[k].obj
                    /\ e.hook = reg[m]
                    /\ e.res = "ok"
            /\ (Is(k, "ObjectMutator") /\ trace[k].obj > 1) =>
                \E l \in 1..(k - 1) :
                    Is(l, "Delete") /\ trace[l].obj = trace[k].obj - 1

\* A Delete that mutated the second object after the delete request of the
\* first.
C16_Witness ==
    /\ op = "Delete"
    /\ \E k \in 1..(Len(trace) - 1) :
        /\ Is(k, "Delete") /\ trace[k].obj = 1
        /\ Is(k + 1, "ObjectMutator") /\ trace[k + 1].obj = 2

\* The label Apply puts on the error of a failed call.
StageLabel(ev) ==
    CASE ev = "ObjectMutator"   -> "error mutating object"
      [] ev = "Patch"           -> "error patching object"
      [] ev = "Create"          -> "error creating object"
      [] ev = "PostApplyAction" -> "error running post apply action"
      [] OTHER                  -> "error parsing kustomize files"

\* C17: an error returned by Apply is the failure of its last call, wrapped
\* in the label of the stage of that call: parsing for loading, filesystem
\* and kustomization hooks, composition and conversion, and one label of
\* its own for object mutators, Patch, Create and post-apply actions.
C17_StageLabels ==
    (op = "Apply" /\ Done /\ err # Nil) =>
        /\ trace # <<>>
        /\ trace[Len(trace)].res # "ok"
        /\ Len(err) >= 2
        /\ Head(err) = StageLabel(trace[Len(trace)].ev)
        /\ \A n \in 2..Len(err) :
            err[n] \notin {StageLabel(ev) : ev \in ClusterCalls \cup HookEvents}

\* Apply returned the error of a failed Patch.
C17_Witness ==
    /\ op = "Apply" /\ Done /\ err # Nil
    /\ Is(Len(trace), "Patch")
    /\ Len(trace) > 4

\* C19: a failure of loading, of a filesystem or kustomization hook, of the
\* descriptor rewrite, of composition or of the conversion of a resource is
\* the last call of the render: Apply and Delete have returned a parsing
\* error, and no object mutator, post-apply action, Patch, Create or Delete
\* was invoked, not even for the resources converted before the failure.
C19_ParseAllOrNothing ==
    \A k \in Positions :
        (Rank(trace[k].ev) <= 7 /\ trace[k].res = "error") =>
            /\ Aborted(k)
            /\ Head(err) = "error parsing kustomize files"
            /\ \A l \in Positions : Rank(trace[l].ev) <= 7

\* A Delete whose second resource failed to convert after the first was
\* converted, with an object mutator registered.
C19_Witness ==
    /\ op = "Delete" /\ Done
    /\ HooksOf("WithObjectMutator") # <<>>
    /\ Len(objs) = 1
    /\ Is(Len(trace), "Convert") /\ trace[Len(trace)].obj = 2
    /\ trace[Len(trace)].res = "error"

\* The two invocations on the Renderer: the one taking steps and the other.
Invocations == {Locals, other.l}

\* The hooks that returned nil among the calls named ev for item o in t.
OkHooks(t, ev, o) ==
    LET sel == SelectSeq(t, LAMBDA e : e.ev = ev /\ e.obj = o /\ e.res = "ok")
    IN  [n \in 1..Len(sel) |-> sel[n].hook]

\* The manifest source as embedded.
AuthoredTree ==
    [loaded |-> TRUE,
     base   |-> [encoding |-> "authored", muts |-> <<>>],
     fsmuts |-> <<>>]

\* C15: a render starts from a copy of the manifest source as embedded:
\* right after LoadFS the tree of an invocation is the authored one,
\* whatever the mutators of another Apply or Delete on the same Renderer,
\* finished or not, wrote to theirs.
C15_FreshTree ==
    \A l \in Invocations :
        (Len(l.trace) = 1 /\ l.trace[1].res = "ok") => l.virtfs = AuthoredTree

\* A render has just loaded its tree after another render on the Renderer
\* finished with a tree its mutators changed.
C15_Witness ==
    /\ Len(trace) = 1 /\ trace[1].res = "ok"
    /\ other.l.pc = "done"
    /\ other.l.virtfs.loaded
    /\ other.l.virtfs # AuthoredTree

\* The tree an invocation holds, from its own calls alone.
TreeOf(t) ==
    LET loaded  == t # <<>> /\ t[1].res = "ok"
        written == \E k \in 1..Len(t) :
                       t[k].ev = "WriteKustomization" /\ t[k].res = "ok"
    IN  [loaded |-> loaded,
         base   |-> IF written
                    THEN [encoding |-> "marshaled",
                          muts     |-> OkHooks(t, "KustomizeMutator", 0)]
                    ELSE [encoding |-> IF loaded THEN "authored" ELSE "none",
                          muts     |-> <<>>],
         fsmuts |-> OkHooks(t, "FSMutator", 0)]

\* The object list an invocation holds, from its own calls alone.
ObjectsOf(l) ==
    LET conv == SelectSeq(l.trace,
                          LAMBDA e : e.ev = "Convert" /\ e.res = "ok")
    IN  [n \in 1..Len(conv) |->
            [rsc   |-> conv[n].obj,
             gvk   |-> l.res[conv[n].obj],
             typed |-> TypedMode,
             muts  |-> OkHooks(l.trace, "ObjectMutator", n)]]

\* C18: under every interleaving of two invocations on one Renderer, the
\* Renderer is as NewRenderer built it from the options, and the tree and
\* the object list of each invocation are those its own calls produced.
C18_NoSharedState ==
    /\ r = NewRenderer(opts)
    /\ \A l \in Invocations :
        /\ l.virtfs = TreeOf(l.trace)
        /\ l.objs = ObjectsOf(l)

\* An Apply and a Delete both under way, each with an object of its own.
C18_Witness ==
    /\ op = "Apply" /\ other.l.op = "Delete"
    /\ pc \notin {"idle", "done"}
    /\ other.l.pc \notin {"idle", "done"}
    /\ objs # <<>> /\ other.l.objs # <<>>
    /\ \E k \in Positions : Is(k, "Patch")

====
